---------------------------- MODULE Spec2Model ----------------------------
(***************************************************************************)
(* A model of the FlagImage module of CellProfiler                         *)
(* (src/cellprofiler/modules/flagimage.py): the evaluation of one          *)
(* measurement criterion (eval_measurement), the aggregation of a flag's   *)
(* criteria and its side effects (run_flag, run), and the migration of a   *)
(* persisted settings list (upgrade_settings).                             *)
(*                                                                         *)
(* Numbers are fixed-point: a number x of the program is the integer       *)
(* x * Scale, so that the mean of up to MaxObjects whole numbers is exact. *)
(* NaN is a value of its own: every comparison with it is false and it     *)
(* propagates through mean, minimum and maximum, as numpy does.            *)
(***************************************************************************)
EXTENDS Integers, Sequences, FiniteSets, TLC

VARIABLES
    ms,                        \* eval_measurement: the measurement settings evaluated
    eval_out,                  \* eval_measurement: what the call returned (or raised)
    flags,                     \* self.flags: the module's flags
    workspace,                 \* the workspace: measurements, rules scores, disposition
    run_out,                   \* run: what the call left behind (statistics, error)
    setting_values,            \* upgrade_settings: the list handed in
    variable_revision_number,  \* upgrade_settings: the version handed in
    from_matlab,               \* upgrade_settings: the legacy-import switch handed in
    upgrade_out,               \* upgrade_settings: what the call returned (or raised)
    pipeline,                  \* validate_module: the pipeline handed in
    validate_out               \* validate_module: what the call raised, if anything

vars == <<ms, eval_out, flags, workspace, run_out,
          setting_values, variable_revision_number, from_matlab, upgrade_out,
          pipeline, validate_out>>

---------------------------------------------------------------------------
(* Names and numbers of the source *)

C_ANY == "Flag if any fail"
C_ALL == "Flag if all fail"

S_IMAGE == "Whole-image measurement"
S_AVERAGE_OBJECT == "Average measurement for all objects in each image"
S_ALL_OBJECTS == "Measurements for all objects in each image"
S_RULES == "Rules"
S_ALL == <<S_IMAGE, S_AVERAGE_OBJECT, S_ALL_OBJECTS, S_RULES>>

N_FIXED_SETTINGS == 1
N_FIXED_SETTINGS_PER_FLAG == 5
N_SETTINGS_PER_MEASUREMENT_V2 == 7
N_SETTINGS_PER_MEASUREMENT_V3 == 9
N_SETTINGS_PER_MEASUREMENT == 10
variable_revision_number_current == 4

YES == "Yes"
NO == "No"
NONE == "None"
IMAGE == "Image"
DISPOSITION_CONTINUE == "Continue"
DISPOSITION_SKIP == "Skip"
DEFAULT_INPUT_FOLDER_NAME == "Default Input Folder"

---------------------------------------------------------------------------
(* Bounds of the model *)

MaxObjects == 2       \* objects in an image (length of an object measurement vector)
MaxRows == 2          \* rows of a rules score matrix
MaxCriteria == 3      \* measurements of a flag that is run
MaxRunFlags == 3      \* flags of a module that is run
MaxUpgradeFlags == 2  \* flags declared by a settings list that is upgraded
MaxUpgradeMeas == 2   \* measurements per flag declared by such a list
MaxConfigFlags == 3   \* flags of a module in the settings window
MaxConfigMeas == 3    \* measurements per flag of such a module
MaxValidateCriteria == 3  \* measurements, over all flags, of a module that is validated

---------------------------------------------------------------------------
(* Numbers *)

RECURSIVE Factorial(_)
Factorial(n) == IF n <= 1 THEN 1 ELSE n * Factorial(n - 1)

Scale == Factorial(MaxObjects)

NaN == -1000

isnan(x) == x = NaN

\* x < y and x > y on floating-point numbers: false when either is NaN
Lt(x, y) == ~isnan(x) /\ ~isnan(y) /\ x < y
Gt(x, y) == ~isnan(x) /\ ~isnan(y) /\ x > y

RECURSIVE np_sum(_)
np_sum(data) ==
    IF Len(data) = 0 THEN 0
    ELSE LET rest == np_sum(Tail(data))
         IN IF isnan(Head(data)) \/ isnan(rest) THEN NaN ELSE Head(data) + rest

np_mean(data) ==
    LET total == np_sum(data)
    IN IF isnan(total) THEN NaN ELSE total \div Len(data)

RECURSIVE np_min(_)
np_min(data) ==
    IF Len(data) = 1 THEN Head(data)
    ELSE LET rest == np_min(Tail(data))
         IN IF isnan(Head(data)) \/ isnan(rest) THEN NaN
            ELSE IF Head(data) < rest THEN Head(data) ELSE rest

RECURSIVE np_max(_)
np_max(data) ==
    IF Len(data) = 1 THEN Head(data)
    ELSE LET rest == np_max(Tail(data))
         IN IF isnan(Head(data)) \/ isnan(rest) THEN NaN
            ELSE IF Head(data) > rest THEN Head(data) ELSE rest

\* np.argmax of one row, 0-based: the first NaN if there is one (NaN counts
\* as the maximum), else the first occurrence of the largest score
np_argmax(row) ==
    IF \E j \in 1..Len(row) : isnan(row[j])
    THEN (CHOOSE j \in 1..Len(row) :
              isnan(row[j]) /\ \A k \in 1..(j - 1) : ~isnan(row[k])) - 1
    ELSE (CHOOSE j \in 1..Len(row) :
              /\ \A k \in 1..Len(row) : row[k] <= row[j]
              /\ \A k \in 1..(j - 1) : row[k] < row[j]) - 1

\* int(x) of a string of digits; -1 stands for the ValueError of anything else
MaxInt == 9
int(x) ==
    IF \E n \in 0..MaxInt : ToString(n) = x
    THEN CHOOSE n \in 0..MaxInt : ToString(n) = x
    ELSE -1

\* round(value, 3), as a count of thousandths (half away from zero)
round3(value) ==
    IF isnan(value) THEN NaN
    ELSE IF value >= 0 THEN (2000 * value + Scale) \div (2 * Scale)
    ELSE 0 - ((2000 * (0 - value) + Scale) \div (2 * Scale))

digits3(f) == ToString(f \div 100) \o ToString((f \div 10) % 10) \o ToString(f % 10)

\* "%.3f" % x, x given in thousandths
fmt3(t) ==
    IF isnan(t) THEN "nan"
    ELSE LET a == IF t < 0 THEN 0 - t ELSE t
         IN (IF t < 0 THEN "-" ELSE "") \o ToString(a \div 1000) \o "." \o digits3(a % 1000)

\* str(x) of a float with at most three decimals, x given in thousandths
str(t) ==
    IF isnan(t) THEN "nan"
    ELSE LET a == IF t < 0 THEN 0 - t ELSE t
             f == a % 1000
             frac == IF f % 100 = 0 THEN ToString(f \div 100)
                     ELSE IF f % 10 = 0
                          THEN ToString(f \div 100) \o ToString((f \div 10) % 10)
                          ELSE digits3(f)
         IN (IF t < 0 THEN "-" ELSE "") \o ToString(a \div 1000) \o "." \o frac

---------------------------------------------------------------------------
(* The measurements of the workspace (cellprofiler.measurements) and the   *)
(* score matrix the rules of the workspace give (cellprofiler.utilities.   *)
(* rules), as FlagImage uses them                                          *)

\* m.get_current_image_measurement(feature) finds a value
has_image_measurement(w, feature) == feature \in DOMAIN w.image

get_current_image_measurement(w, feature) == w.image[feature]

\* m.get_current_measurement(object_name, feature) finds a vector
has_measurement(w, object_name, feature) == <<object_name, feature>> \in DOMAIN w.objects

get_current_measurement(w, object_name, feature) == w.objects[<<object_name, feature>>]

\* rules.score(workspace.measurements): one row per image, one column per class
score(w) == w.scores

\* get_rules(measurement_group): the rules read from the file named by the
\* group, or the error raised: os.path.isfile(path) is false for a file that
\* is not there, rules.parse(path) raises on a file that is no rules file
get_rules(w, measurement_group) ==
    IF measurement_group.rules_file_name \notin DOMAIN w.rules_files
    THEN [raised |-> "ValidationError", rules |-> <<>>]
    ELSE IF ~w.rules_files[measurement_group.rules_file_name].parses
    THEN [raised |-> "ParseError", rules |-> <<>>]
    ELSE [raised |-> "", rules |-> w.rules_files[measurement_group.rules_file_name].rules]

\* m.add_image_measurement(feature, value)
add_image_measurement(w, feature, value) ==
    [w EXCEPT !.image = [f \in (DOMAIN w.image) \cup {feature} |->
                            IF f = feature THEN value ELSE w.image[f]],
              !.added = Append(w.added, <<feature, value>>)]

---------------------------------------------------------------------------
(* eval_measurement *)

\* what eval_measurement hands back when it raises
EvalRaised(err) ==
    [raised |-> err, passed |-> FALSE, stats |-> <<"", "", "", "">>,
     hit_count |-> 0, is_not_nan |-> <<>>, objclass |-> <<>>]

\* no_objects, without the failure
no_objects_passing ==
    [min_value |-> NaN, max_value |-> NaN, fail |-> FALSE, display_value |-> "No objects"]

\* the locals of the branches for an empty object vector
no_objects ==
    [min_value |-> NaN, max_value |-> NaN, fail |-> TRUE, display_value |-> "No objects"]

\* fail_verdict, with a value equal to a bound failing
fail_verdict_at_bound(m_s, fail, min_value, max_value) ==
    \/ /\ m_s.source_choice # S_RULES
       /\ \/ fail
          \/ m_s.wants_minimum /\ ~Gt(min_value, m_s.minimum_value) /\ ~isnan(min_value)
          \/ m_s.wants_maximum /\ ~Lt(max_value, m_s.maximum_value) /\ ~isnan(max_value)
    \/ /\ m_s.source_choice = S_RULES
       /\ fail

\* the final value of fail
fail_verdict(m_s, fail, min_value, max_value) ==
    \/ /\ m_s.source_choice # S_RULES
       /\ \/ fail
          \/ m_s.wants_minimum /\ Lt(min_value, m_s.minimum_value)
          \/ m_s.wants_maximum /\ Gt(max_value, m_s.maximum_value)
    \/ /\ m_s.source_choice = S_RULES
       /\ fail

\* the tuple returned
eval_return(m_s, fail, source, display_value) ==
    [passed |-> ~fail,
     stats |-> <<source,
                 IF m_s.source_choice # S_RULES THEN m_s.measurement ELSE "Rules",
                 display_value,
                 IF fail THEN "Fail" ELSE "Pass">>]

eval_thresholds(m_s, locals, source) ==
    LET fail == fail_verdict(m_s, locals.fail, locals.min_value, locals.max_value)
        r == eval_return(m_s, fail, source, locals.display_value)
    IN [raised |-> "", passed |-> r.passed, stats |-> r.stats,
        hit_count |-> 0, is_not_nan |-> <<>>, objclass |-> <<>>]

eval_image(w, m_s) ==
    IF ~has_image_measurement(w, m_s.measurement) THEN EvalRaised("LookupError")
    ELSE LET value == get_current_image_measurement(w, m_s.measurement)
         IN eval_thresholds(m_s,
                [min_value |-> value, max_value |-> value, fail |-> FALSE,
                 display_value |-> str(round3(value))],
                IMAGE)

eval_average_object(w, m_s) ==
    IF ~has_measurement(w, m_s.object_name, m_s.measurement) THEN EvalRaised("LookupError")
    ELSE LET data == get_current_measurement(w, m_s.object_name, m_s.measurement)
             mean == np_mean(data)
         IN eval_thresholds(m_s,
                IF Len(data) = 0 THEN no_objects
                ELSE [min_value |-> mean, max_value |-> mean, fail |-> FALSE,
                      display_value |-> str(round3(mean))],
                "Ave. " \o m_s.object_name)

eval_all_objects(w, m_s) ==
    IF ~has_measurement(w, m_s.object_name, m_s.measurement) THEN EvalRaised("LookupError")
    ELSE LET data == get_current_measurement(w, m_s.object_name, m_s.measurement)
             min_value == np_min(data)
             max_value == np_max(data)
         IN eval_thresholds(m_s,
                IF Len(data) = 0 THEN no_objects
                ELSE [min_value |-> min_value, max_value |-> max_value, fail |-> FALSE,
                      display_value |->
                          IF min_value = max_value /\ ~isnan(min_value)
                          THEN str(round3(min_value))
                          ELSE fmt3(round3(min_value)) \o " - " \o fmt3(round3(max_value))],
                m_s.object_name)

\* is_not_nan = np.any(~ np.isnan(scores), 1)
rules_is_not_nan(scores) ==
    [i \in 1..Len(scores) |-> \E j \in 1..Len(scores[i]) : ~isnan(scores[i][j])]

\* objclass = np.argmax(scores[is_not_nan, :], 1).flatten()
rules_objclass(scores) ==
    LET is_not_nan == rules_is_not_nan(scores)
        kept == SelectSeq([i \in 1..Len(scores) |-> i], LAMBDA i : is_not_nan[i])
    IN [k \in 1..Len(kept) |-> np_argmax(scores[kept[k]])]

\* hit_count = np.sum(objclass[:, np.newaxis] == rules_classes[np.newaxis, :])
rules_hit_count(objclass, rules_classes) ==
    Cardinality({p \in (1..Len(objclass)) \X (1..Len(rules_classes)) :
                     objclass[p[1]] = rules_classes[p[2]]})

\* fail = hit_count > scores.shape[0] - hit_count
rules_fail(scores, hit_count) == hit_count > Len(scores) - hit_count

rules_display_value(scores, hit_count) ==
    IF Len(scores) > 1
    THEN ToString(hit_count) \o " of " \o ToString(Len(scores))
    ELSE "--"

eval_rules(w, m_s) ==
    IF get_rules(w, m_s).raised # "" THEN EvalRaised(get_rules(w, m_s).raised)
    ELSE
    LET scores == score(w)
        selections == m_s.rules_class
        rules_classes == [k \in 1..Len(selections) |-> int(selections[k]) - 1]
        objclass == rules_objclass(scores)
        hit_count == rules_hit_count(objclass, rules_classes)
        fail == fail_verdict(m_s, rules_fail(scores, hit_count), NaN, NaN)
        r == eval_return(m_s, fail, IMAGE, rules_display_value(scores, hit_count))
    IN [raised |-> "", passed |-> r.passed, stats |-> r.stats,
        hit_count |-> hit_count, is_not_nan |-> rules_is_not_nan(scores),
        objclass |-> objclass]

eval_measurement(w, m_s) ==
    IF m_s.source_choice = S_IMAGE THEN eval_image(w, m_s)
    ELSE IF m_s.source_choice = S_AVERAGE_OBJECT THEN eval_average_object(w, m_s)
    ELSE IF m_s.source_choice = S_ALL_OBJECTS THEN eval_all_objects(w, m_s)
    ELSE IF m_s.source_choice = S_RULES THEN eval_rules(w, m_s)
    ELSE EvalRaised("NotImplementedError")

---------------------------------------------------------------------------
(* run_flag and run *)

measurement_name(flag) == flag.category \o "_" \o flag.feature_name

\* combine, with "Flag if any fail" combined the way "Flag if all fail" is
combine_any_as_or(combination_choice, ok, ok_1) ==
    IF combination_choice = C_ALL THEN [raised |-> "", ok |-> ok \/ ok_1]
    ELSE IF combination_choice = C_ANY THEN [raised |-> "", ok |-> ok \/ ok_1]
    ELSE [raised |-> "NotImplementedError", ok |-> ok]

\* combine, with "Flag if all fail" combined the way "Flag if any fail" is
combine_all_as_and(combination_choice, ok, ok_1) ==
    IF combination_choice = C_ALL THEN [raised |-> "", ok |-> ok /\ ok_1]
    ELSE IF combination_choice = C_ANY THEN [raised |-> "", ok |-> ok /\ ok_1]
    ELSE [raised |-> "NotImplementedError", ok |-> ok]

\* the combination of the running verdict with the verdict of the next measurement
combine(combination_choice, ok, ok_1) ==
    IF combination_choice = C_ALL THEN [raised |-> "", ok |-> ok \/ ok_1]
    ELSE IF combination_choice = C_ANY THEN [raised |-> "", ok |-> ok /\ ok_1]
    ELSE [raised |-> "NotImplementedError", ok |-> ok]

\* flag_value, with the two values exchanged
flag_value_inverted(ok) == IF ok THEN 1 ELSE 0

\* the value of the flag measurement
flag_value(ok) == IF ok THEN 0 ELSE 1

\* record_flag, writing the measurement of flagged images only
record_flag_if_flagged(w, flag, ok) ==
    IF ok THEN w ELSE add_image_measurement(w, measurement_name(flag), flag_value(ok))

\* m.add_image_measurement(self.measurement_name(flag), 0 if ok else 1)
record_flag(w, flag, ok) == add_image_measurement(w, measurement_name(flag), flag_value(ok))

\* set_disposition, skipping whenever the flag fails
set_disposition_always(w, flag, ok) ==
    IF ~ok
    THEN [w EXCEPT !.disposition = DISPOSITION_SKIP]
    ELSE w

\* set_disposition, setting the disposition back when the flag does not skip
set_disposition_or_continue(w, flag, ok) ==
    IF (~ok) /\ flag.wants_skip
    THEN [w EXCEPT !.disposition = DISPOSITION_SKIP]
    ELSE [w EXCEPT !.disposition = DISPOSITION_CONTINUE]

\* if (not ok) and flag.wants_skip: workspace.disposition = cpw.DISPOSITION_SKIP
set_disposition(w, flag, ok) ==
    IF (~ok) /\ flag.wants_skip
    THEN [w EXCEPT !.disposition = DISPOSITION_SKIP]
    ELSE w

\* what run_flag and run hand back when an error leaves them
RunRaised(err, w, statistics) == [raised |-> err, workspace |-> w, statistics |-> statistics]

\* the end of run_flag, once every measurement is evaluated
run_flag_end(w, flag, ok, statistics) ==
    [raised |-> "",
     workspace |-> set_disposition(record_flag(w, flag, ok), flag, ok),
     statistics |-> statistics]

\* the loop of run_flag over flag.measurement_settings[1:], from the i-th
\* measurement on; e is what eval_measurement gave for the i-th, c the
\* combination of its verdict with the running one
RECURSIVE run_flag_loop(_, _, _, _, _)
\* run_flag_combined, leaving the loop once "Flag if any fail" has a failure
\* or "Flag if all fail" has a pass
run_flag_combined_short(w, flag, i, statistics, e, c) ==
    IF c.raised # "" THEN RunRaised(c.raised, w, <<>>)
    ELSE IF (flag.combination_choice = C_ANY /\ ~c.ok) \/ (flag.combination_choice = C_ALL /\ c.ok)
    THEN run_flag_end(w, flag, c.ok,
                      Append(statistics, <<measurement_name(flag)>> \o e.stats))
    ELSE run_flag_loop(w, flag, i + 1, c.ok,
                       Append(statistics, <<measurement_name(flag)>> \o e.stats))

run_flag_combined(w, flag, i, statistics, e, c) ==
    IF c.raised # "" THEN RunRaised(c.raised, w, <<>>)
    ELSE run_flag_loop(w, flag, i + 1, c.ok,
                       Append(statistics, <<measurement_name(flag)>> \o e.stats))

run_flag_evaluated(w, flag, i, ok, statistics, e) ==
    IF e.raised # "" THEN RunRaised(e.raised, w, <<>>)
    ELSE run_flag_combined(w, flag, i, statistics, e,
                           combine(flag.combination_choice, ok, e.passed))

run_flag_loop(w, flag, i, ok, statistics) ==
    IF i > Len(flag.measurement_settings)
    THEN run_flag_end(w, flag, ok, statistics)
    ELSE run_flag_evaluated(w, flag, i, ok, statistics,
                            eval_measurement(w, flag.measurement_settings[i]))

\* the start of run_flag; e is what eval_measurement gave for measurement 0
run_flag_first(w, flag, e) ==
    IF e.raised # "" THEN RunRaised(e.raised, w, <<>>)
    ELSE run_flag_loop(w, flag, 2, e.passed, << <<measurement_name(flag)>> \o e.stats >>)

\* run_flag: the workspace it leaves, the statistics it returns, the error it raises
run_flag(w, flag) ==
    IF Len(flag.measurement_settings) = 0 THEN RunRaised("IndexError", w, <<>>)
    ELSE run_flag_first(w, flag, eval_measurement(w, flag.measurement_settings[1]))

\* run: the loop over self.flags, from the i-th flag on; r is what run_flag
\* gave for the i-th flag
RECURSIVE run_loop(_, _, _, _)
\* run_loop_flagged, catching what run_flag raises and going on to the next flag
run_loop_flagged_catching(w, fs, i, statistics, r) ==
    IF r.raised # "" THEN run_loop(w, fs, i + 1, statistics)
    ELSE run_loop(r.workspace, fs, i + 1, statistics \o r.statistics)

run_loop_flagged(w, fs, i, statistics, r) ==
    IF r.raised # "" THEN RunRaised(r.raised, w, statistics)
    ELSE run_loop(r.workspace, fs, i + 1, statistics \o r.statistics)

run_loop(w, fs, i, statistics) ==
    IF i > Len(fs) THEN RunRaised("", w, statistics)
    ELSE run_loop_flagged(w, fs, i, statistics, run_flag(w, fs[i]))

run(w, fs) == run_loop(w, fs, 1, <<>>)

---------------------------------------------------------------------------
(* upgrade_settings *)

\* Python's s[i], s[a:b] and s.startswith(prefix), on the strings of the model
py_has(s, i) == i < Len(s)
py_item(s, i) == s[i + 1]
py_slice(s, a, b) ==
    IF a >= Len(s) THEN <<>> ELSE SubSeq(s, a + 1, IF b < Len(s) THEN b ELSE Len(s))

LabelEndings == {"", " objects", " objects in each image"}
startswith(s, prefix) == \E ending \in LabelEndings : s = prefix \o ending

\* new_name.find('_'), on the names of the model: the part before the first
\* underscore has none in it
NameHeads == {"QC", "Metadata"}
NameTails == {"Flag", "Flag_2"}
has_underscore(name) == \E a \in NameHeads, b \in NameTails : name = a \o "_" \o b
before_underscore(name) ==
    CHOOSE a \in NameHeads : \E b \in NameTails : name = a \o "_" \o b
after_underscore(name) ==
    CHOOSE b \in NameTails : \E a \in NameHeads : name = a \o "_" \o b

\* cps.DirectoryPath.static_join_string(dir_choice, custom_path)
static_join_string(dir_choice, custom_path) == dir_choice \o "|" \o custom_path

\* what upgrade_settings hands back
Upgraded(values, version, matlab) ==
    [raised |-> "", setting_values |-> values, variable_revision_number |-> version,
     from_matlab |-> matlab]
UpgradeRaised(err) ==
    [raised |-> err, setting_values |-> <<>>, variable_revision_number |-> 0,
     from_matlab |-> FALSE]

\* what a loop over the measurements of a flag hands back
Sliced(idx, new_setting_values) ==
    [raised |-> "", idx |-> idx, new_setting_values |-> new_setting_values]
SliceRaised(err) == [raised |-> err, idx |-> 0, new_setting_values |-> <<>>]

\* matlab_setting_values, wanting the minimum also when there is none
matlab_setting_values_wanting_minimum(measurement, min_value, max_value, new_name) ==
    <<"1", "1",
      IF has_underscore(new_name) THEN before_underscore(new_name) ELSE "Metadata",
      IF has_underscore(new_name) THEN after_underscore(new_name) ELSE new_name,
      C_ANY, S_IMAGE, NONE, measurement,
      YES,
      IF min_value = "No minimum" THEN "0" ELSE min_value,
      IF max_value = "No maximum" THEN NO ELSE YES,
      IF max_value = "No maximum" THEN "1" ELSE max_value>>

\* the import of a MATLAB module: the version 1 list it makes
matlab_setting_values(measurement, min_value, max_value, new_name) ==
    <<"1", "1",
      IF has_underscore(new_name) THEN before_underscore(new_name) ELSE "Metadata",
      IF has_underscore(new_name) THEN after_underscore(new_name) ELSE new_name,
      C_ANY, S_IMAGE, NONE, measurement,
      IF min_value = "No minimum" THEN NO ELSE YES,
      IF min_value = "No minimum" THEN "0" ELSE min_value,
      IF max_value = "No maximum" THEN NO ELSE YES,
      IF max_value = "No maximum" THEN "1" ELSE max_value>>

upgrade_matlab(sv, version) ==
    IF version = 1
    THEN IF Len(sv) # 8 THEN UpgradeRaised("ValueError")
         ELSE Upgraded(matlab_setting_values(sv[2] \o "_" \o sv[3] \o "_" \o sv[1],
                                             sv[4], sv[5], sv[7]), 1, FALSE)
    ELSE IF Len(sv) # 9 THEN UpgradeRaised("ValueError")
         ELSE Upgraded(matlab_setting_values(
                           sv[2] \o "_" \o sv[3] \o "_" \o sv[1] \o "_" \o sv[4],
                           sv[5], sv[6], sv[8]), 1, FALSE)

\* version 1 to 2: the name of the source of a measurement
upgrade_1_source(measurement_source) ==
    IF startswith(measurement_source, "Measurement for all")
       \/ measurement_source = "All objects"
    THEN S_ALL_OBJECTS
    ELSE IF measurement_source = "Average for objects" THEN S_AVERAGE_OBJECT
    ELSE IF measurement_source = "Image" THEN S_IMAGE
    ELSE measurement_source

\* version 1 to 2: what a flag and a measurement add to new_setting_values
upgrade_1_flag(sv, idx) == py_slice(sv, idx, idx + 4) \o <<NO>>
upgrade_1_measurement(sv, idx) ==
    <<upgrade_1_source(py_item(sv, idx))>> \o py_slice(sv, idx + 1, idx + 7)

RECURSIVE upgrade_1_measurements(_, _, _, _)
upgrade_1_measurements(sv, meas_left, idx, new) ==
    IF meas_left <= 0 THEN Sliced(idx, new)
    ELSE IF ~py_has(sv, idx) THEN SliceRaised("IndexError")
    ELSE upgrade_1_measurements(sv, meas_left - 1, idx + 7,
                                new \o upgrade_1_measurement(sv, idx))

RECURSIVE upgrade_1_flags(_, _, _, _)
upgrade_1_flags_next(sv, flags_left, m) ==
    IF m.raised # "" THEN UpgradeRaised(m.raised)
    ELSE upgrade_1_flags(sv, flags_left - 1, m.idx, m.new_setting_values)

upgrade_1_flags(sv, flags_left, idx, new) ==
    IF flags_left <= 0 THEN Upgraded(new, 2, FALSE)
    ELSE IF ~py_has(sv, idx) THEN UpgradeRaised("IndexError")
    ELSE IF int(py_item(sv, idx)) < 0 THEN UpgradeRaised("ValueError")
    ELSE upgrade_1_flags_next(sv, flags_left,
             upgrade_1_measurements(sv, int(py_item(sv, idx)), idx + 4,
                                    new \o upgrade_1_flag(sv, idx)))

upgrade_1(sv) ==
    IF ~py_has(sv, 0) THEN UpgradeRaised("IndexError")
    ELSE IF int(py_item(sv, 0)) < 0 THEN UpgradeRaised("ValueError")
    ELSE upgrade_1_flags(sv, int(py_item(sv, 0)), 1, <<py_item(sv, 0)>>)

\* version 2 to 3 (added rules): what a flag and a measurement add
upgrade_2_flag(sv, idx) == py_slice(sv, idx, idx + N_FIXED_SETTINGS_PER_FLAG)
upgrade_2_measurement(sv, idx) ==
    <<py_item(sv, idx)>> \o py_slice(sv, idx + 1, idx + N_SETTINGS_PER_MEASUREMENT_V2)
        \o <<static_join_string(DEFAULT_INPUT_FOLDER_NAME, NONE), "rules.txt">>

RECURSIVE upgrade_2_measurements(_, _, _, _)
upgrade_2_measurements(sv, meas_left, idx, new) ==
    IF meas_left <= 0 THEN Sliced(idx, new)
    ELSE IF ~py_has(sv, idx) THEN SliceRaised("IndexError")
    ELSE upgrade_2_measurements(sv, meas_left - 1, idx + N_SETTINGS_PER_MEASUREMENT_V2,
                                new \o upgrade_2_measurement(sv, idx))

RECURSIVE upgrade_2_flags(_, _, _, _)
upgrade_2_flags_next(sv, flags_left, m) ==
    IF m.raised # "" THEN UpgradeRaised(m.raised)
    ELSE upgrade_2_flags(sv, flags_left - 1, m.idx, m.new_setting_values)

upgrade_2_flags(sv, flags_left, idx, new) ==
    IF flags_left <= 0 THEN Upgraded(new, 3, FALSE)
    ELSE IF ~py_has(sv, idx) THEN UpgradeRaised("IndexError")
    ELSE IF int(py_item(sv, idx)) < 0 THEN UpgradeRaised("ValueError")
    ELSE upgrade_2_flags_next(sv, flags_left,
             upgrade_2_measurements(sv, int(py_item(sv, idx)),
                                    idx + N_FIXED_SETTINGS_PER_FLAG,
                                    new \o upgrade_2_flag(sv, idx)))

upgrade_2(sv) ==
    IF ~py_has(sv, 0) THEN UpgradeRaised("IndexError")
    ELSE IF int(py_item(sv, 0)) < 0 THEN UpgradeRaised("ValueError")
    ELSE upgrade_2_flags(sv, int(py_item(sv, 0)), 1, <<py_item(sv, 0)>>)

\* upgrade_3_measurement, without the class
upgrade_3_measurement_without_class(sv, idx) ==
    py_slice(sv, idx, idx + N_SETTINGS_PER_MEASUREMENT_V3)

\* version 3 to 4 (added rules_class): what a flag and a measurement add
upgrade_3_flag(sv, idx) == py_slice(sv, idx, idx + N_FIXED_SETTINGS_PER_FLAG)
upgrade_3_measurement(sv, idx) ==
    py_slice(sv, idx, idx + N_SETTINGS_PER_MEASUREMENT_V3) \o <<"1">>

RECURSIVE upgrade_3_measurements(_, _, _, _)
upgrade_3_measurements(sv, meas_left, idx, new) ==
    IF meas_left <= 0 THEN Sliced(idx, new)
    ELSE upgrade_3_measurements(sv, meas_left - 1, idx + N_SETTINGS_PER_MEASUREMENT_V3,
                                new \o upgrade_3_measurement(sv, idx))

RECURSIVE upgrade_3_flags(_, _, _, _)
upgrade_3_flags_next(sv, flags_left, m) ==
    upgrade_3_flags(sv, flags_left - 1, m.idx, m.new_setting_values)

upgrade_3_flags(sv, flags_left, idx, new) ==
    IF flags_left <= 0 THEN Upgraded(new, 4, FALSE)
    ELSE IF ~py_has(sv, idx) THEN UpgradeRaised("IndexError")
    ELSE IF int(py_item(sv, idx)) < 0 THEN UpgradeRaised("ValueError")
    ELSE upgrade_3_flags_next(sv, flags_left,
             upgrade_3_measurements(sv, int(py_item(sv, idx)),
                                    idx + N_FIXED_SETTINGS_PER_FLAG,
                                    new \o upgrade_3_flag(sv, idx)))

upgrade_3(sv) ==
    IF ~py_has(sv, 0) THEN UpgradeRaised("IndexError")
    ELSE IF int(py_item(sv, 0)) < 0 THEN UpgradeRaised("ValueError")
    ELSE upgrade_3_flags(sv, int(py_item(sv, 0)), 1, py_slice(sv, 0, 1))

\* upgrade_from_3, handing a list of version 3 back as it came
upgrade_from_3_left(u) == u

\* the steps of upgrade_settings, each taking what the one before handed on
upgrade_from_3(u) ==
    IF u.raised = "" /\ ~u.from_matlab /\ u.variable_revision_number = 3
    THEN upgrade_3(u.setting_values)
    ELSE u

upgrade_from_2(u) ==
    upgrade_from_3(IF u.raised = "" /\ ~u.from_matlab /\ u.variable_revision_number = 2
                   THEN upgrade_2(u.setting_values)
                   ELSE u)

upgrade_from_1(u) ==
    upgrade_from_2(IF u.raised = "" /\ ~u.from_matlab /\ u.variable_revision_number = 1
                   THEN upgrade_1(u.setting_values)
                   ELSE u)

upgrade_settings(sv, version, matlab) ==
    upgrade_from_1(IF matlab /\ (version = 1 \/ version = 2)
                   THEN upgrade_matlab(sv, version)
                   ELSE Upgraded(sv, version, matlab))

---------------------------------------------------------------------------
(* The inputs of the model *)

Numbers == {0, Scale, 2 * Scale}
Values == Numbers \cup {NaN}
MinimumValues == {0, Scale}
MaximumValues == {Scale, 2 * Scale}

ObjectVectors == UNION {[1..n -> Values] : n \in 0..MaxObjects}

ScoreRows == [1..2 -> {NaN, 0, Scale}]
ScoreMatrices == UNION {[1..n -> ScoreRows] : n \in 0..MaxRows}
ClassSelections == {<<>>, <<"1">>, <<"2">>, <<"1", "2">>}

\* a measurement group as add_measurement makes it, with the given values
Measurement(source_choice, wants_min, min_value, wants_max, max_value, rules_class) ==
    [source_choice |-> source_choice, object_name |-> "Nuclei",
     measurement |-> "Intensity_Mean", wants_minimum |-> wants_min,
     minimum_value |-> min_value, wants_maximum |-> wants_max,
     maximum_value |-> max_value, rules_file_name |-> "rules.txt",
     rules_class |-> rules_class]

\* the measurement group add_measurement makes: both bounds wanted, 0 and 1
DefaultMeasurement(source_choice) ==
    Measurement(source_choice, TRUE, 0, TRUE, Scale, <<"1">>)

NoFunction == [x \in {} |-> 0]

\* a rule of a rules file: the object and the feature it is about
Rule(object_name, feature) == [object_name |-> object_name, feature |-> feature]

\* the files in the folder of the rules files: a file that is no rules file,
\* and rules files about the image, about objects, and about nothing
RulesFiles ==
    [name \in {"rules.txt", "two_rules.txt", "object_rules.txt", "no_rules.txt",
               "broken.txt"} |->
        IF name = "rules.txt"
        THEN [parses |-> TRUE, rules |-> <<Rule(IMAGE, "ImageQuality_PowerLogLogSlope_DNA")>>]
        ELSE IF name = "two_rules.txt"
        THEN [parses |-> TRUE,
              rules |-> <<Rule(IMAGE, "ImageQuality_PowerLogLogSlope_DNA"),
                          Rule(IMAGE, "Intensity_Mean")>>]
        ELSE IF name = "object_rules.txt"
        THEN [parses |-> TRUE,
              rules |-> <<Rule(IMAGE, "ImageQuality_PowerLogLogSlope_DNA"),
                          Rule("Nuclei", "Intensity_Mean")>>]
        ELSE IF name = "no_rules.txt"
        THEN [parses |-> TRUE, rules |-> <<>>]
        ELSE [parses |-> FALSE, rules |-> <<>>]]

\* a workspace, with the rules files the module finds when it runs on it
Workspace(image, objects, scores, disposition) ==
    [image |-> image, objects |-> objects, scores |-> scores, added |-> <<>>,
     disposition |-> disposition, rules_files |-> RulesFiles]

IdleWorkspace == Workspace(NoFunction, NoFunction, <<>>, DISPOSITION_CONTINUE)
IdleMeasurement == DefaultMeasurement(S_IMAGE)
IdleEval == [done |-> FALSE, result |-> EvalRaised("")]
IdleRun == [done |-> FALSE, raised |-> "", statistics |-> <<>>, before |-> IdleWorkspace]
IdleUpgrade == [done |-> FALSE, raised |-> "", setting_values |-> <<>>,
                variable_revision_number |-> 0, from_matlab |-> FALSE]
IdlePipeline == [measurement_columns |-> {}]
IdleValidate == [done |-> FALSE, raised |-> "", setting |-> <<>>]

EvalIdle == ms = IdleMeasurement /\ eval_out = IdleEval
RunIdle == flags = <<>> /\ run_out = IdleRun
UpgradeIdle ==
    /\ setting_values = <<>>
    /\ variable_revision_number = 0
    /\ from_matlab = FALSE
    /\ upgrade_out = IdleUpgrade
ValidateIdle == pipeline = IdlePipeline /\ validate_out = IdleValidate

---------------------------------------------------------------------------
(* Evaluating one measurement of a flag against a workspace *)

InitEvalImage ==
    \E wmin \in BOOLEAN, wmax \in BOOLEAN, mn \in MinimumValues, mx \in MaximumValues :
        /\ ms = Measurement(S_IMAGE, wmin, mn, wmax, mx, <<"1">>)
        /\ \/ \E v \in Values :
                 workspace = Workspace("Intensity_Mean" :> v, NoFunction, <<>>,
                                       DISPOSITION_CONTINUE)
           \/ workspace = IdleWorkspace

InitEvalObjects ==
    \E src \in {S_AVERAGE_OBJECT, S_ALL_OBJECTS},
       wmin \in BOOLEAN, wmax \in BOOLEAN, mn \in MinimumValues, mx \in MaximumValues :
        /\ ms = Measurement(src, wmin, mn, wmax, mx, <<"1">>)
        /\ \/ \E data \in ObjectVectors :
                 workspace = Workspace(NoFunction, <<"Nuclei", "Intensity_Mean">> :> data,
                                       <<>>, DISPOSITION_CONTINUE)
           \/ workspace = IdleWorkspace

InitEvalRules ==
    \E wmin \in BOOLEAN, wmax \in BOOLEAN, sel \in ClassSelections, scores \in ScoreMatrices :
        /\ ms = Measurement(S_RULES, wmin, 0, wmax, Scale, sel)
        /\ workspace = Workspace(NoFunction, NoFunction, scores, DISPOSITION_CONTINUE)

InitEvalOther ==
    /\ ms = DefaultMeasurement("Other")
    /\ workspace = IdleWorkspace

InitEval ==
    /\ InitEvalImage \/ InitEvalObjects \/ InitEvalRules \/ InitEvalOther
    /\ eval_out = IdleEval
    /\ RunIdle
    /\ UpgradeIdle
    /\ ValidateIdle

\* one call of eval_measurement(workspace, ms)
EvalMeasurement ==
    /\ ~eval_out.done
    /\ eval_out' = [done |-> TRUE, result |-> eval_measurement(workspace, ms)]
    /\ UNCHANGED <<ms, flags, workspace, run_out,
                   setting_values, variable_revision_number, from_matlab, upgrade_out,
                   pipeline, validate_out>>

NextEval == EvalMeasurement

SpecEval == InitEval /\ [][NextEval]_vars

---------------------------------------------------------------------------
(* Running the module on a workspace *)

\* the measurements a flag that is run may hold: one of each source, as
\* add_measurement makes them
RunMeasurements == {DefaultMeasurement(S_ALL[i]) : i \in 1..Len(S_ALL)}

RunMeasurementLists == UNION {[1..n -> RunMeasurements] : n \in 1..MaxCriteria}

RunFlags ==
    {[category |-> "Metadata", feature_name |-> "QCFlag",
      combination_choice |-> c, wants_skip |-> k, measurement_settings |-> l] :
        c \in {C_ANY, C_ALL, "Other"}, k \in BOOLEAN, l \in RunMeasurementLists}

RunImages == {NoFunction, "Intensity_Mean" :> Scale, "Intensity_Mean" :> 2 * Scale}
RunObjects ==
    {<<"Nuclei", "Intensity_Mean">> :> data : data \in {<<>>, <<0, 2 * Scale>>, <<Scale, Scale>>}}
RunScores == {<< <<Scale, 0>> >>, << <<0, Scale>> >>}

\* the measurements of a flag that is run with others: none, one of the
\* image, one of objects, one of rules whose file is not there
RunAmongOthers ==
    {<<>>, <<DefaultMeasurement(S_IMAGE)>>, <<DefaultMeasurement(S_ALL_OBJECTS)>>,
     <<[DefaultMeasurement(S_RULES) EXCEPT !.rules_file_name = "missing.txt"]>>}

\* several flags, each under its own name
RunSeveralFlags ==
    UNION {{[k \in 1..n |->
                [category |-> "QC", feature_name |-> "Flag" \o ToString(k),
                 combination_choice |-> C_ANY, wants_skip |-> skips[k],
                 measurement_settings |-> lists[k]]] :
               skips \in [1..n -> BOOLEAN], lists \in [1..n -> RunAmongOthers]} :
           n \in 2..MaxRunFlags}

InitRun ==
    /\ \/ \E flag \in RunFlags : flags = <<flag>>
       \/ flags \in RunSeveralFlags
    /\ \E image \in RunImages, objects \in RunObjects, scores \in RunScores,
          disposition \in {DISPOSITION_CONTINUE, DISPOSITION_SKIP} :
           workspace = Workspace(image, objects, scores, disposition)
    /\ run_out = IdleRun
    /\ EvalIdle
    /\ UpgradeIdle
    /\ ValidateIdle

\* one call of run(workspace)
RunModule ==
    /\ ~run_out.done
    /\ LET r == run(workspace, flags)
       IN /\ workspace' = r.workspace
          /\ run_out' = [done |-> TRUE, raised |-> r.raised,
                         statistics |-> r.statistics, before |-> workspace]
    /\ UNCHANGED <<ms, eval_out, flags,
                   setting_values, variable_revision_number, from_matlab, upgrade_out,
                   pipeline, validate_out>>

NextRun == RunModule

SpecRun == InitRun /\ [][NextRun]_vars

---------------------------------------------------------------------------
(* Upgrading a settings list *)

\* the fields of a flag after its count of measurements, by version:
\* category, feature name, combination choice and, from version 2 on,
\* wants_skip
SavedFlags ==
    << <<"Metadata", "QCFlag", C_ANY, NO>>,
       <<"QC", "Focus", C_ALL, YES>> >>

\* the fields of a measurement, as version 1 saved them
SavedMeasurements ==
    << <<"Image", NONE, "ImageQuality_PowerLogLogSlope_DNA", YES, "-2.5", NO, "1">>,
       <<"Average for objects", "Nuclei", "AreaShape_Area", NO, "0", YES, "500">>,
       <<"All objects", "Cells", "Intensity_MeanIntensity_Actin", YES, "0.1", YES, "0.9">>,
       <<"Measurement for all objects", "Nuclei", "AreaShape_Eccentricity", NO, "0", NO, "1">>,
       <<S_AVERAGE_OBJECT, "Cells", "AreaShape_Perimeter", YES, "10", NO, "1">> >>

\* the fields versions 3 and 4 added to a measurement
SavedRules ==
    << <<static_join_string(DEFAULT_INPUT_FOLDER_NAME, NONE), "rules.txt", "1">>,
       <<static_join_string("Default Output Folder", NONE), "qc_rules.txt", "2">> >>

\* the t-th measurement of a list of the given version
SavedMeasurement(version, t) ==
    LET fields == SavedMeasurements[(t % Len(SavedMeasurements)) + 1]
        rules == SavedRules[(t % Len(SavedRules)) + 1]
    IN IF version = 1 THEN fields
       ELSE <<upgrade_1_source(fields[1])>> \o Tail(fields)
                \o SubSeq(rules, 1, IF version = 2 THEN 0 ELSE version - 1)

RECURSIVE SavedMeasurementList(_, _, _)
SavedMeasurementList(version, t, count) ==
    IF count = 0 THEN <<>>
    ELSE SavedMeasurement(version, t) \o SavedMeasurementList(version, t + 1, count - 1)

\* the flags of a list from the k-th on; counts are the measurements of each
\* flag, t the measurements before the k-th flag, q chooses the flag fields
RECURSIVE SavedFlagList(_, _, _, _, _)
SavedFlagList(version, counts, k, t, q) ==
    IF k > Len(counts) THEN <<>>
    ELSE <<ToString(counts[k])>>
             \o SubSeq(SavedFlags[((q + k) % Len(SavedFlags)) + 1], 1,
                       IF version = 1 THEN 3 ELSE 4)
             \o SavedMeasurementList(version, t, counts[k])
             \o SavedFlagList(version, counts, k + 1, t + counts[k], q)

SavedSettings(version, counts, r, q) ==
    <<ToString(Len(counts))>> \o SavedFlagList(version, counts, 1, r, q)

SavedShapes == UNION {[1..n -> 0..MaxUpgradeMeas] : n \in 0..MaxUpgradeFlags}

\* a list as saved, or with its last value lost, or with a value too many
Damaged(values, damage) ==
    IF damage = "short" THEN SubSeq(values, 1, Len(values) - 1)
    ELSE IF damage = "long" THEN Append(values, "extra")
    ELSE values

InitUpgradeSaved ==
    \E version \in 1..variable_revision_number_current, counts \in SavedShapes,
       r \in 0..(Len(SavedMeasurements) - 1), q \in 0..(Len(SavedFlags) - 1),
       damage \in {"none", "short", "long"} :
        /\ setting_values = Damaged(SavedSettings(version, counts, r, q), damage)
        /\ variable_revision_number = version
        /\ from_matlab = FALSE

\* the settings of the MATLAB module FlagImageForQC, versions 1 and 2
InitUpgradeMatlab ==
    \E version \in 1..3, min_value \in {"No minimum", "0.2"},
       max_value \in {"No maximum", "0.8"},
       new_or_append \in {"Create new flag", "Append existing flag"},
       new_name \in {"QCFlag", "QC_Flag", "Metadata_Flag_2"} :
        /\ setting_values =
               <<"OrigBlue", "Intensity", "MeanIntensity">>
                   \o (IF version = 1 THEN <<>> ELSE <<"3">>)
                   \o <<min_value, max_value, new_or_append, new_name, "Do not use">>
        /\ variable_revision_number = version
        /\ from_matlab = TRUE

InitUpgrade ==
    /\ InitUpgradeSaved \/ InitUpgradeMatlab
    /\ upgrade_out = IdleUpgrade
    /\ EvalIdle
    /\ RunIdle
    /\ ValidateIdle
    /\ workspace = IdleWorkspace

\* one call of upgrade_settings(setting_values, variable_revision_number,
\* module_name, from_matlab)
UpgradeSettings ==
    /\ ~upgrade_out.done
    /\ LET u == upgrade_settings(setting_values, variable_revision_number, from_matlab)
       IN upgrade_out' = [done |-> TRUE, raised |-> u.raised,
                          setting_values |-> u.setting_values,
                          variable_revision_number |-> u.variable_revision_number,
                          from_matlab |-> u.from_matlab]
    /\ UNCHANGED <<ms, eval_out, flags, workspace, run_out,
                   setting_values, variable_revision_number, from_matlab,
                   pipeline, validate_out>>

NextUpgrade == UpgradeSettings

SpecUpgrade == InitUpgrade /\ [][NextUpgrade]_vars

---------------------------------------------------------------------------
(* Configuring the module: create_settings, the buttons of the settings   *)
(* window, settings and prepare_settings                                  *)

\* the measurement group add_measurement makes; it has a remover when it
\* can be deleted
measurement_group(can_delete) ==
    ("remover" :> can_delete)
        @@ ("object_name" :> NONE)
        @@ ("rules_directory" :> static_join_string(DEFAULT_INPUT_FOLDER_NAME, NONE))
        @@ DefaultMeasurement(S_ALL[1])

add_measurement(flag_settings, can_delete) ==
    [flag_settings EXCEPT
        !.measurement_settings = Append(@, measurement_group(can_delete))]

\* the flag group add_flag makes, before its first measurement is added
flag_group(can_delete) ==
    [measurement_settings |-> <<>>, category |-> "Metadata", feature_name |-> "QCFlag",
     combination_choice |-> C_ANY, wants_skip |-> FALSE, remover |-> can_delete]

\* add_flag, putting the new flag before the others
add_flag_in_front(fs, can_delete) ==
    <<add_measurement(flag_group(can_delete),
                      IF ~can_delete THEN FALSE ELSE TRUE)>> \o fs

add_flag(fs, can_delete) ==
    Append(fs, add_measurement(flag_group(can_delete),
                               IF ~can_delete THEN FALSE ELSE TRUE))

create_settings == add_flag(<<>>, FALSE)

\* cps.RemoveSettingButton(..., list, entry): pressing it takes the entry,
\* the i-th, out of its list
remove(list, i) == SubSeq(list, 1, i - 1) \o SubSeq(list, i + 1, Len(list))

\* the text a setting is saved as
binary_text(b) == IF b THEN YES ELSE NO
float_text(x) == str((1000 * x) \div Scale)
RECURSIVE multichoice_text(_)
multichoice_text(selections) ==
    IF Len(selections) = 0 THEN ""
    ELSE IF Len(selections) = 1 THEN selections[1]
    ELSE selections[1] \o "," \o multichoice_text(Tail(selections))

\* settings(): the settings of a measurement, of a flag and of the module,
\* each given as the text it is saved as
measurement_group_settings(mg) ==
    <<mg.source_choice, mg.object_name, mg.measurement,
      binary_text(mg.wants_minimum), float_text(mg.minimum_value),
      binary_text(mg.wants_maximum), float_text(mg.maximum_value),
      mg.rules_directory, mg.rules_file_name, multichoice_text(mg.rules_class)>>

RECURSIVE measurement_settings_from(_, _)
measurement_settings_from(groups, i) ==
    IF i > Len(groups) THEN <<>>
    ELSE measurement_group_settings(groups[i]) \o measurement_settings_from(groups, i + 1)

flag_settings(flag) ==
    <<ToString(Len(flag.measurement_settings)), flag.category, flag.feature_name,
      flag.combination_choice, binary_text(flag.wants_skip)>>
        \o measurement_settings_from(flag.measurement_settings, 1)

RECURSIVE flags_settings_from(_, _)
flags_settings_from(fs, k) ==
    IF k > Len(fs) THEN <<>>
    ELSE flag_settings(fs[k]) \o flags_settings_from(fs, k + 1)

settings(fs) == <<ToString(Len(fs))>> \o flags_settings_from(fs, 1)

\* prepare_settings: while len(self.flags) < flag_count: self.add_flag()
RECURSIVE prepare_flag_count(_, _)
prepare_flag_count(fs, flag_count) ==
    IF Len(fs) < flag_count THEN prepare_flag_count(add_flag(fs, TRUE), flag_count)
    ELSE fs

\* prepare_settings: while len(flag.measurement_settings) < count:
\* self.add_measurement(flag, can_delete=True)
RECURSIVE prepare_measurement_count(_, _)
prepare_measurement_count(flag, count) ==
    IF Len(flag.measurement_settings) < count
    THEN prepare_measurement_count(add_measurement(flag, TRUE), count)
    ELSE flag

Prepared(fs) == [raised |-> "", flags |-> fs]
PrepareRaised(err, fs) == [raised |-> err, flags |-> fs]

\* prepare_settings: the loop over self.flags, from the k-th flag on, sv
\* being what is left of setting_values
RECURSIVE prepare_flags(_, _, _)
prepare_flags(fs, k, sv) ==
    IF k > Len(fs) THEN Prepared(fs)
    ELSE IF ~py_has(sv, 0) THEN PrepareRaised("IndexError", fs)
    ELSE IF int(py_item(sv, 0)) < 0 THEN PrepareRaised("ValueError", fs)
    ELSE prepare_flags(
             [fs EXCEPT ![k] = prepare_measurement_count(fs[k], int(py_item(sv, 0)))],
             k + 1,
             py_slice(sv,
                      N_FIXED_SETTINGS_PER_FLAG
                          + int(py_item(sv, 0)) * N_SETTINGS_PER_MEASUREMENT,
                      Len(sv)))

\* prepare_settings(setting_values), on the flags fs of the module: the
\* flags it leaves and the error it raises
prepare_settings(fs, sv) ==
    IF ~py_has(sv, 0) THEN PrepareRaised("IndexError", fs)
    ELSE IF int(py_item(sv, 0)) < 0 THEN PrepareRaised("ValueError", fs)
    ELSE prepare_flags(prepare_flag_count(add_flag(<<>>, FALSE), int(py_item(sv, 0))),
                       1, py_slice(sv, N_FIXED_SETTINGS, Len(sv)))

\* The module in the settings window. flags are the flags of the module;
\* setting_values is the list the flags were last prepared for, none once a
\* button has changed them since.
InitConfig ==
    /\ flags = create_settings
    /\ setting_values = <<>>
    /\ variable_revision_number = 0
    /\ from_matlab = FALSE
    /\ upgrade_out = IdleUpgrade
    /\ run_out = IdleRun
    /\ EvalIdle
    /\ ValidateIdle
    /\ workspace = IdleWorkspace

\* "Add another flag"
AddFlag ==
    /\ Len(flags) < MaxConfigFlags
    /\ flags' = add_flag(flags, TRUE)
    /\ setting_values' = <<>>
    /\ UNCHANGED <<ms, eval_out, workspace, run_out,
                   variable_revision_number, from_matlab, upgrade_out,
                   pipeline, validate_out>>

\* "Remove this flag", of a flag that has the button
RemoveFlag ==
    \E k \in DOMAIN flags :
        /\ flags[k].remover
        /\ flags' = remove(flags, k)
        /\ setting_values' = <<>>
        /\ UNCHANGED <<ms, eval_out, workspace, run_out,
                       variable_revision_number, from_matlab, upgrade_out,
                       pipeline, validate_out>>

\* "Add another measurement", of a flag
AddMeasurement ==
    \E k \in DOMAIN flags :
        /\ Len(flags[k].measurement_settings) < MaxConfigMeas
        /\ flags' = [flags EXCEPT ![k] = add_measurement(flags[k], TRUE)]
        /\ setting_values' = <<>>
        /\ UNCHANGED <<ms, eval_out, workspace, run_out,
                       variable_revision_number, from_matlab, upgrade_out,
                       pipeline, validate_out>>

\* "Remove this measurement", of a measurement that has the button
RemoveMeasurement ==
    \E k \in DOMAIN flags :
        \E i \in DOMAIN flags[k].measurement_settings :
            /\ flags[k].measurement_settings[i].remover
            /\ flags' = [flags EXCEPT
                            ![k].measurement_settings = remove(@, i)]
            /\ setting_values' = <<>>
            /\ UNCHANGED <<ms, eval_out, workspace, run_out,
                           variable_revision_number, from_matlab, upgrade_out,
                           pipeline, validate_out>>

\* the module is saved and loaded again: prepare_settings is handed the
\* values of settings()
PrepareSettings ==
    /\ setting_values = <<>>
    /\ setting_values' = settings(flags)
    /\ flags' = prepare_settings(flags, settings(flags)).flags
    /\ UNCHANGED <<ms, eval_out, workspace, run_out,
                   variable_revision_number, from_matlab, upgrade_out,
                   pipeline, validate_out>>

NextConfig ==
    AddFlag \/ RemoveFlag \/ AddMeasurement \/ RemoveMeasurement \/ PrepareSettings

SpecConfig == InitConfig /\ [][NextConfig]_vars

---------------------------------------------------------------------------
(* validate_module *)

\* what validate_module raises: nothing, or a ValidationError that carries
\* a setting, here the rules_file_name of measurement i of flag k
Validated == [raised |-> "", setting |-> <<>>]
ValidationError(k, i) ==
    [raised |-> "ValidationError", setting |-> <<k, i, "rules_file_name">>]

\* [c[1] for c in pipeline.get_measurement_columns(self)]
measurement_cols(p) == {c[2] : c \in p.measurement_columns}

\* validate_rules, with rules about objects let through
validate_rules_of_objects(p, k, i, r) ==
    IF r.raised # "" THEN ValidationError(k, i)
    ELSE IF {r.rules[j].feature : j \in DOMAIN r.rules} \ measurement_cols(p) # {}
    THEN ValidationError(k, i)
    ELSE Validated

\* the checks of measurement i of flag k, r being what get_rules gave for it
validate_rules(p, k, i, r) ==
    IF r.raised # "" THEN ValidationError(k, i)
    ELSE IF ~(\A j \in DOMAIN r.rules : r.rules[j].object_name = IMAGE)
    THEN ValidationError(k, i)
    ELSE IF {r.rules[j].feature : j \in DOMAIN r.rules} \ measurement_cols(p) # {}
    THEN ValidationError(k, i)
    ELSE Validated

validate_measurement(p, w, fs, k, i) ==
    IF fs[k].measurement_settings[i].source_choice = S_RULES
    THEN validate_rules(p, k, i, get_rules(w, fs[k].measurement_settings[i]))
    ELSE Validated

\* the loops over the flags and their measurements, from measurement i of
\* flag k on; v is what the checks of that measurement gave
RECURSIVE validate_from(_, _, _, _, _)
validate_next(p, w, fs, k, i, v) ==
    IF v.raised # "" THEN v ELSE validate_from(p, w, fs, k, i + 1)

validate_from(p, w, fs, k, i) ==
    IF k > Len(fs) THEN Validated
    ELSE IF i > Len(fs[k].measurement_settings) THEN validate_from(p, w, fs, k + 1, 1)
    ELSE validate_next(p, w, fs, k, i, validate_measurement(p, w, fs, k, i))

\* validate_module(pipeline), on the flags fs, with the rules files of w
validate_module(p, w, fs) == validate_from(p, w, fs, 1, 1)

\* The measurements that are validated: of rules, with each of the files
\* and with a file that is not there, and of the image and of objects, with
\* files that are of no use
ValidateMeasurements ==
    {[DefaultMeasurement(S_RULES) EXCEPT !.rules_file_name = name] :
         name \in (DOMAIN RulesFiles) \cup {"missing.txt"}}
    \cup {[DefaultMeasurement(S_IMAGE) EXCEPT !.rules_file_name = "missing.txt"],
          [DefaultMeasurement(S_ALL_OBJECTS) EXCEPT !.rules_file_name = "broken.txt"]}

\* the flags holding the measurements of a list in its order, a new flag
\* starting after the j-th where cut[j]; j is the next to place, current
\* the measurements of the flag being filled
RECURSIVE SplitIntoFlags(_, _, _, _)
SplitIntoFlags(list, cut, j, current) ==
    IF j > Len(list)
    THEN <<[flag_group(TRUE) EXCEPT !.measurement_settings = current]>>
    ELSE IF cut[j - 1]
    THEN <<[flag_group(TRUE) EXCEPT !.measurement_settings = current]>>
             \o SplitIntoFlags(list, cut, j + 1, <<list[j]>>)
    ELSE SplitIntoFlags(list, cut, j + 1, Append(current, list[j]))

\* the columns of the modules before this one in the pipeline
ValidatePipelines ==
    {[measurement_columns |-> columns] :
        columns \in
            {{},
             {<<IMAGE, "ImageQuality_PowerLogLogSlope_DNA", "float">>},
             {<<IMAGE, "ImageQuality_PowerLogLogSlope_DNA", "float">>,
              <<IMAGE, "Intensity_Mean", "float">>},
             {<<IMAGE, "ImageQuality_PowerLogLogSlope_DNA", "float">>,
              <<"Nuclei", "Intensity_Mean", "float">>}}}

InitValidate ==
    /\ \E n \in 1..MaxValidateCriteria :
           \E list \in [1..n -> ValidateMeasurements], cut \in [1..(n - 1) -> BOOLEAN] :
               flags = SplitIntoFlags(list, cut, 2, <<list[1]>>)
    /\ pipeline \in ValidatePipelines
    /\ workspace = IdleWorkspace
    /\ validate_out = IdleValidate
    /\ run_out = IdleRun
    /\ EvalIdle
    /\ UpgradeIdle

\* one call of validate_module(pipeline)
ValidateModule ==
    /\ ~validate_out.done
    /\ LET v == validate_module(pipeline, workspace, flags)
       IN validate_out' = [done |-> TRUE, raised |-> v.raised, setting |-> v.setting]
    /\ UNCHANGED <<ms, eval_out, flags, workspace, run_out,
                   setting_values, variable_revision_number, from_matlab, upgrade_out,
                   pipeline>>

NextValidate == ValidateModule

SpecValidate == InitValidate /\ [][NextValidate]_vars

---------------------------------------------------------------------------
(* Properties of run_flag *)

RanNormally == run_out.done /\ run_out.raised = ""

\* the measurements run added to the workspace, in the order it added them
Added == SubSeq(workspace.added, Len(run_out.before.added) + 1, Len(workspace.added))

\* the number of measurements of the flags before the k-th
RECURSIVE MeasurementsBefore(_)
MeasurementsBefore(k) ==
    IF k <= 1 THEN 0
    ELSE MeasurementsBefore(k - 1) + Len(flags[k - 1].measurement_settings)

\* the verdicts reported for the measurements of the k-th flag, in order
Verdicts(k) ==
    [i \in 1..Len(flags[k].measurement_settings) |->
        run_out.statistics[MeasurementsBefore(k) + i][5]]

AnyFails(k) == \E i \in DOMAIN Verdicts(k) : Verdicts(k)[i] = "Fail"
AllFail(k) == \A i \in DOMAIN Verdicts(k) : Verdicts(k)[i] = "Fail"

\* the image meets the flagging criteria of the k-th flag: under "Flag if all
\* fail" every measurement fails, otherwise some measurement fails
MeetsCriteria(k) == IF flags[k].combination_choice = C_ALL THEN AllFail(k) ELSE AnyFails(k)

\* C1: whenever run_flag returns normally, the image measurement written
\* under the name of the flag is 1 if the image meets the flagging criteria
\* of the flag (the aggregated verdict is fail) and 0 if it does not.
C1_FlagIsOneWhenFlagged ==
    RanNormally =>
        \A k \in 1..Len(flags) :
            /\ Added[k][1] = measurement_name(flags[k])
            /\ MeetsCriteria(k) => Added[k][2] = 1
            /\ ~MeetsCriteria(k) => Added[k][2] = 0

C1_Witness ==
    /\ RanNormally
    /\ Len(flags[1].measurement_settings) = 2
    /\ MeetsCriteria(1)
    /\ workspace.image[measurement_name(flags[1])] = 1

\* C2: under "Flag if any fail", with any number of measurements, run_flag
\* writes 1 if and only if at least one measurement fails; that is, it
\* writes 0 if and only if every measurement passes.
C2_AnyFlagsWhenOneFails ==
    RanNormally =>
        \A k \in 1..Len(flags) :
            flags[k].combination_choice = C_ANY =>
                /\ Added[k][2] = 1 <=> AnyFails(k)
                /\ Added[k][2] = 0 <=>
                       \A i \in DOMAIN Verdicts(k) : Verdicts(k)[i] = "Pass"

C2_Witness ==
    /\ RanNormally
    /\ flags[1].combination_choice = C_ANY
    /\ Verdicts(1) = <<"Fail", "Pass", "Fail">>
    /\ Added[1][2] = 1

\* C3: under "Flag if all fail", with any number of measurements, run_flag
\* writes 1 if and only if every measurement fails; that is, it writes 0 if
\* and only if at least one measurement passes.
C3_AllFlagsWhenAllFail ==
    RanNormally =>
        \A k \in 1..Len(flags) :
            flags[k].combination_choice = C_ALL =>
                /\ Added[k][2] = 1 <=> AllFail(k)
                /\ Added[k][2] = 0 <=>
                       \E i \in DOMAIN Verdicts(k) : Verdicts(k)[i] = "Pass"

C3_Witness ==
    /\ RanNormally
    /\ flags[1].combination_choice = C_ALL
    /\ Verdicts(1) = <<"Fail", "Pass", "Fail">>
    /\ Added[1][2] = 0

\* the k-th flag has a measurement of objects, and the image has no objects
HasNoObjects(k) ==
    \E i \in DOMAIN flags[k].measurement_settings :
        LET m_s == flags[k].measurement_settings[i]
        IN /\ m_s.source_choice \in {S_AVERAGE_OBJECT, S_ALL_OBJECTS}
           /\ run_out.before.objects[<<m_s.object_name, m_s.measurement>>] = <<>>

\* C4: after a run_flag that returns normally, exactly one image measurement
\* has been written for the flag, under the name category_featurename, and
\* its value is 0 or 1 (so neither NaN nor absent), also when a measurement
\* of the flag had an empty object vector.
C4_OneFlagValueZeroOrOne ==
    RanNormally =>
        /\ Len(Added) = Len(flags)
        /\ \A k \in 1..Len(flags) :
               LET name == flags[k].category \o "_" \o flags[k].feature_name
               IN /\ Added[k][1] = name
                  /\ Added[k][2] \in {0, 1}
                  /\ name \in DOMAIN workspace.image
                  /\ workspace.image[name] \in {0, 1}

C4_Witness ==
    /\ RanNormally
    /\ HasNoObjects(1)
    /\ Len(Added) = 1
    /\ workspace.image["Metadata_QCFlag"] = 1

\* C5: run_flag sets the disposition of the workspace to SKIP if and only if
\* the aggregated verdict of the flag is fail and wants_skip is set; in every
\* other case it leaves the disposition as it found it.
C5_SkipOnlyWhenWantedAndFailed ==
    RanNormally =>
        IF \E k \in 1..Len(flags) : MeetsCriteria(k) /\ flags[k].wants_skip
        THEN workspace.disposition = DISPOSITION_SKIP
        ELSE workspace.disposition = run_out.before.disposition

C5_Witness ==
    /\ RanNormally
    /\ run_out.before.disposition = DISPOSITION_CONTINUE
    /\ MeetsCriteria(1)
    /\ flags[1].wants_skip
    /\ workspace.disposition = DISPOSITION_SKIP

---------------------------------------------------------------------------
(* Properties of eval_measurement *)

Evaluated == eval_out.done /\ eval_out.result.raised = ""

\* the object values the measurement of ms is taken from
ObjectData == workspace.objects[<<ms.object_name, ms.measurement>>]

\* ms is a measurement of the image, or of objects of which there are some,
\* and the workspace holds it
HasData ==
    \/ /\ ms.source_choice = S_IMAGE
       /\ ms.measurement \in DOMAIN workspace.image
    \/ /\ ms.source_choice \in {S_AVERAGE_OBJECT, S_ALL_OBJECTS}
       /\ <<ms.object_name, ms.measurement>> \in DOMAIN workspace.objects
       /\ ObjectData # <<>>

\* ms is a measurement of objects, and there are none
HasNoData ==
    /\ ms.source_choice \in {S_AVERAGE_OBJECT, S_ALL_OBJECTS}
    /\ <<ms.object_name, ms.measurement>> \in DOMAIN workspace.objects
    /\ ObjectData = <<>>

RECURSIVE Total(_, _)
Total(data, n) == IF n = 0 THEN 0 ELSE Total(data, n - 1) + data[n]

AllNumbers(data) == \A i \in DOMAIN data : data[i] # NaN

\* min < bound, for the min of the claim: the value of the image, the mean
\* of the object values, the least of the object values; no NaN is below
\* anything, and neither is a mean or a minimum of values with a NaN
BelowMinimum(bound) ==
    IF ms.source_choice = S_IMAGE
    THEN LET value == workspace.image[ms.measurement]
         IN value # NaN /\ value < bound
    ELSE IF ms.source_choice = S_AVERAGE_OBJECT
    THEN /\ AllNumbers(ObjectData)
         /\ Total(ObjectData, Len(ObjectData)) < bound * Len(ObjectData)
    ELSE /\ AllNumbers(ObjectData)
         /\ \E i \in DOMAIN ObjectData : ObjectData[i] < bound

\* max > bound, likewise, with the greatest of the object values
AboveMaximum(bound) ==
    IF ms.source_choice = S_IMAGE
    THEN LET value == workspace.image[ms.measurement]
         IN value # NaN /\ value > bound
    ELSE IF ms.source_choice = S_AVERAGE_OBJECT
    THEN /\ AllNumbers(ObjectData)
         /\ Total(ObjectData, Len(ObjectData)) > bound * Len(ObjectData)
    ELSE /\ AllNumbers(ObjectData)
         /\ \E i \in DOMAIN ObjectData : ObjectData[i] > bound

\* C6: for a measurement that is not of rules and has data, eval_measurement
\* reports fail if and only if the minimum is wanted and min < minimum_value,
\* or the maximum is wanted and max > maximum_value; a value equal to a
\* bound passes and a bound that is not wanted fails nothing.
C6_FailsOutsideWantedBounds ==
    Evaluated /\ HasData =>
        /\ ~eval_out.result.passed <=>
               \/ ms.wants_minimum /\ BelowMinimum(ms.minimum_value)
               \/ ms.wants_maximum /\ AboveMaximum(ms.maximum_value)
        /\ eval_out.result.stats[4] = "Fail" <=> ~eval_out.result.passed

C6_Witness ==
    /\ Evaluated
    /\ ms.source_choice = S_ALL_OBJECTS
    /\ ms.wants_minimum /\ ms.wants_maximum
    /\ ms.minimum_value < ms.maximum_value
    /\ HasData
    /\ ObjectData = <<ms.maximum_value, ms.minimum_value>>
    /\ eval_out.result.passed

\* C7: for a measurement of objects whose vector is empty, eval_measurement
\* raises nothing and returns fail (passed false, verdict "Fail") with the
\* display value "No objects", whatever the bounds and whether they are
\* wanted.
C7_NoObjectsFails ==
    eval_out.done /\ HasNoData =>
        /\ eval_out.result.raised = ""
        /\ ~eval_out.result.passed
        /\ eval_out.result.stats[3] = "No objects"
        /\ eval_out.result.stats[4] = "Fail"

C7_Witness ==
    /\ eval_out.done
    /\ HasNoData
    /\ ~ms.wants_minimum /\ ~ms.wants_maximum
    /\ eval_out.result.stats = <<"Ave. Nuclei", "Intensity_Mean", "No objects", "Fail">>

\* C8: for a measurement of rules, with remaining_rows the number of score
\* rows left after the NaN rows are discarded and hit_count the number of
\* them whose class is among the selected ones, eval_measurement reports
\* fail if and only if hit_count > remaining_rows - hit_count.
C8_MajorityOfRemainingRows ==
    Evaluated /\ ms.source_choice = S_RULES =>
        LET hit_count == eval_out.result.hit_count
            remaining_rows == Len(eval_out.result.objclass)
        IN ~eval_out.result.passed <=> hit_count > remaining_rows - hit_count

NoNaN(row) == \A j \in DOMAIN row : row[j] # NaN

\* the class of a row of numbers, counted from 1: the first of its largest scores
FirstLargest(row) ==
    CHOOSE j \in DOMAIN row :
        /\ \A k \in DOMAIN row : row[k] <= row[j]
        /\ \A k \in DOMAIN row : k < j => row[k] < row[j]

Selected(class) == \E k \in DOMAIN ms.rules_class : ms.rules_class[k] = ToString(class)

\* C9: for a measurement of rules, every row of the score matrix with a NaN
\* in it is discarded before the classes are assigned: the rows that are
\* assigned a class and counted towards hit_count are the rows without NaN.
C9_RowsWithNaNDiscarded ==
    Evaluated /\ ms.source_choice = S_RULES =>
        /\ \A i \in DOMAIN workspace.scores :
               eval_out.result.is_not_nan[i] <=> NoNaN(workspace.scores[i])
        /\ eval_out.result.hit_count =
               Cardinality({i \in DOMAIN workspace.scores :
                                /\ NoNaN(workspace.scores[i])
                                /\ Selected(FirstLargest(workspace.scores[i]))})

---------------------------------------------------------------------------
(* Properties of upgrade_settings *)

IsCount(x) == \E n \in 0..MaxInt : x = ToString(n)
CountOf(x) == CHOOSE n \in 0..MaxInt : x = ToString(n)

\* where the k-th flag of a list starts (the place of its count of
\* measurements), for a list with fw fields per flag and mw per measurement;
\* 0 when the list does not hold the flags before it
RECURSIVE FlagStart(_, _, _, _)
FlagStart(values, k, fw, mw) ==
    IF k = 1 THEN 2
    ELSE LET p == FlagStart(values, k - 1, fw, mw)
         IN IF p = 0 \/ p > Len(values) THEN 0
            ELSE IF ~IsCount(values[p]) THEN 0
            ELSE p + fw + mw * CountOf(values[p])

\* the list declares flags and measurements, fw fields per flag and mw per
\* measurement, and holds exactly the fields of what it declares
Declares(values, fw, mw) ==
    /\ Len(values) >= 1
    /\ IsCount(values[1])
    /\ FlagStart(values, CountOf(values[1]) + 1, fw, mw) = Len(values) + 1

FlagCount(values) == CountOf(values[1])
MeasurementCount(values, k, fw, mw) == CountOf(values[FlagStart(values, k, fw, mw)])

\* the current name of the source of a measurement
CurrentSource(label) ==
    IF label \in {"All objects", "Measurement for all",
                  "Measurement for all objects",
                  "Measurement for all objects in each image"}
    THEN "Measurements for all objects in each image"
    ELSE IF label = "Average for objects"
    THEN "Average measurement for all objects in each image"
    ELSE IF label = "Image" THEN "Whole-image measurement"
    ELSE label

UpgradedVersion1 ==
    /\ upgrade_out.done
    /\ ~from_matlab
    /\ variable_revision_number = 1
    /\ Declares(setting_values, 4, 7)

\* C10: a version 1 list that is no MATLAB import, with 4 fields per flag
\* and 7 per measurement, is upgraded to version 4 and to a list of 1 plus,
\* for each flag, 5 plus 10 per measurement values: the count of flags, then
\* for each flag its 4 fields and "No", then for each of its measurements
\* its 7 fields, the source under its current name, and the default rules
\* location, "rules.txt" and "1"; all in the order of the list handed in.
C10_Version1UpgradedInPlace ==
    UpgradedVersion1 =>
        LET old == setting_values
            new == upgrade_out.setting_values
        IN /\ upgrade_out.raised = ""
           /\ upgrade_out.variable_revision_number = 4
           /\ Declares(new, 5, 10)
           /\ new[1] = old[1]
           /\ \A k \in 1..FlagCount(old) :
                  LET o == FlagStart(old, k, 4, 7)
                      n == FlagStart(new, k, 5, 10)
                  IN /\ \A f \in 0..3 : new[n + f] = old[o + f]
                     /\ new[n + 4] = "No"
                     /\ \A m \in 0..(MeasurementCount(old, k, 4, 7) - 1) :
                            LET om == o + 4 + 7 * m
                                nm == n + 5 + 10 * m
                            IN /\ new[nm] = CurrentSource(old[om])
                               /\ \A f \in 1..6 : new[nm + f] = old[om + f]
                               /\ new[nm + 7] =
                                      static_join_string(DEFAULT_INPUT_FOLDER_NAME, NONE)
                               /\ new[nm + 8] = "rules.txt"
                               /\ new[nm + 9] = "1"

C10_Witness ==
    /\ UpgradedVersion1
    /\ FlagCount(setting_values) = 2
    /\ MeasurementCount(setting_values, 1, 4, 7) = 2
    /\ MeasurementCount(setting_values, 2, 4, 7) = 1
    /\ setting_values[6] = "All objects"
    /\ upgrade_out.setting_values[7] = S_ALL_OBJECTS
    /\ Len(upgrade_out.setting_values) = 41

\* the fields per flag and per measurement of a list of the given version
FlagWidth(version) == IF version = 1 THEN 4 ELSE N_FIXED_SETTINGS_PER_FLAG
MeasurementWidth(version) ==
    IF version <= 2 THEN N_SETTINGS_PER_MEASUREMENT_V2
    ELSE IF version = 3 THEN N_SETTINGS_PER_MEASUREMENT_V3
    ELSE N_SETTINGS_PER_MEASUREMENT

\* a saved list of version 1, 2 or 3 whose length is not the length that
\* the counts in it declare
InconsistentLength ==
    /\ ~from_matlab
    /\ variable_revision_number \in 1..3
    /\ ~Declares(setting_values, FlagWidth(variable_revision_number),
                 MeasurementWidth(variable_revision_number))

\* C11: upgrade_settings fails with an error, and returns no list, whenever
\* the list of version 1, 2 or 3 handed in is shorter or longer than the
\* count of flags and the counts of measurements in it declare.
C11_InconsistentLengthRaises ==
    upgrade_out.done /\ InconsistentLength => upgrade_out.raised # ""


\* a MATLAB module handed in: 8 values at version 1; 9 at version 2, the
\* scale coming fourth
MatlabImport ==
    /\ upgrade_out.done
    /\ from_matlab
    /\ \/ variable_revision_number = 1 /\ Len(setting_values) = 8
       \/ variable_revision_number = 2 /\ Len(setting_values) = 9

LegacyMinimum == setting_values[IF variable_revision_number = 1 THEN 4 ELSE 5]
LegacyMaximum == setting_values[IF variable_revision_number = 1 THEN 5 ELSE 6]
LegacyName == setting_values[IF variable_revision_number = 1 THEN 7 ELSE 8]
LegacyMeasurement ==
    IF variable_revision_number = 1
    THEN setting_values[2] \o "_" \o setting_values[3] \o "_" \o setting_values[1]
    ELSE setting_values[2] \o "_" \o setting_values[3] \o "_" \o setting_values[1]
             \o "_" \o setting_values[4]

\* the category and the feature of a flag name: the parts before and after
\* its first underscore, the category "Metadata" when it has none
CategoryAndFeature(name) ==
    IF name = "QCFlag" THEN <<"Metadata", "QCFlag">>
    ELSE IF name = "QC_Flag" THEN <<"QC", "Flag">>
    ELSE IF name = "Metadata_Flag_2" THEN <<"Metadata", "Flag_2">>
    ELSE <<"", "">>

\* the version 1 list of one flag with one measurement of the image, under
\* "Flag if any fail", that the claim has a MATLAB module mapped to
LegacyAsVersion1 ==
    <<"1", "1", CategoryAndFeature(LegacyName)[1], CategoryAndFeature(LegacyName)[2],
      "Flag if any fail", "Whole-image measurement", "None", LegacyMeasurement,
      IF LegacyMinimum = "No minimum" THEN "No" ELSE "Yes",
      IF LegacyMinimum = "No minimum" THEN "0" ELSE LegacyMinimum,
      IF LegacyMaximum = "No maximum" THEN "No" ELSE "Yes",
      IF LegacyMaximum = "No maximum" THEN "1" ELSE LegacyMaximum>>

\* C12: a MATLAB module of version 1 (8 values) or 2 (9 values) is mapped to
\* a version 1 list of one flag with one measurement of the image under "Flag
\* if any fail", and upgraded from there: what is returned is version 4, no
\* MATLAB import; the minimum is not wanted and "0" exactly when the MATLAB
\* minimum is "No minimum", else wanted with the MATLAB value, likewise the
\* maximum with "No maximum" and "1"; the category and the feature name are
\* the parts of the MATLAB flag name before and after its first underscore,
\* the category "Metadata" when it has none.
C12_MatlabImportedAsOneImageFlag ==
    MatlabImport =>
        LET new == upgrade_out.setting_values
        IN /\ upgrade_out.raised = ""
           /\ upgrade_out.variable_revision_number = 4
           /\ ~upgrade_out.from_matlab
           /\ new = upgrade_settings(LegacyAsVersion1, 1, FALSE).setting_values
           /\ Len(new) = 16
           /\ new[1] = "1" /\ new[2] = "1"
           /\ <<new[3], new[4]>> = CategoryAndFeature(LegacyName)
           /\ new[5] = "Flag if any fail"
           /\ new[7] = "Whole-image measurement"
           /\ new[9] = LegacyMeasurement
           /\ new[10] = "No" <=> LegacyMinimum = "No minimum"
           /\ new[10] = "Yes" <=> LegacyMinimum # "No minimum"
           /\ new[11] = (IF LegacyMinimum = "No minimum" THEN "0" ELSE LegacyMinimum)
           /\ new[12] = "No" <=> LegacyMaximum = "No maximum"
           /\ new[12] = "Yes" <=> LegacyMaximum # "No maximum"
           /\ new[13] = (IF LegacyMaximum = "No maximum" THEN "1" ELSE LegacyMaximum)

C12_Witness ==
    /\ MatlabImport
    /\ variable_revision_number = 2
    /\ LegacyName = "Metadata_Flag_2"
    /\ LegacyMinimum = "No minimum"
    /\ LegacyMaximum = "0.8"
    /\ SubSeq(upgrade_out.setting_values, 3, 4) = <<"Metadata", "Flag_2">>
    /\ SubSeq(upgrade_out.setting_values, 10, 13) = <<"No", "0", "Yes", "0.8">>


---------------------------------------------------------------------------
(* Properties of the configuration *)

\* C13: in every configuration reached from create_settings by adding and
\* removing flags and measurements (removing only what has a remover), every
\* flag holds at least one measurement, so that run_flag can evaluate
\* measurement_settings[0].
C13_EveryFlagHasACriterion ==
    \A k \in DOMAIN flags : Len(flags[k].measurement_settings) >= 1


\* the flags have been prepared for the list setting_values, which
\* settings() gave, and no button has changed them since
Loaded == setting_values # <<>>

\* C14: prepare_settings, handed the list settings() gives in a
\* configuration reached by adding and removing flags and measurements,
\* makes the number of flags the list declares and, for each flag, the
\* number of measurements the list declares for it, so that settings()
\* afterwards has the length and the layout (1, plus 5 per flag, plus 10 per
\* measurement) of the list.
C14_PreparedAsDeclared ==
    Loaded =>
        /\ Declares(setting_values, N_FIXED_SETTINGS_PER_FLAG, N_SETTINGS_PER_MEASUREMENT)
        /\ Len(flags) = FlagCount(setting_values)
        /\ \A k \in DOMAIN flags :
               Len(flags[k].measurement_settings) =
                   MeasurementCount(setting_values, k, N_FIXED_SETTINGS_PER_FLAG,
                                    N_SETTINGS_PER_MEASUREMENT)
        /\ Len(settings(flags)) = Len(setting_values)


---------------------------------------------------------------------------
(* Further properties of run_flag and run *)

\* the i-th measurement of the k-th flag fails on the workspace run was
\* handed
CriterionFails(k, i) ==
    ~eval_measurement(run_out.before, flags[k].measurement_settings[i]).passed

\* the fail condition of the k-th flag is met: all its measurements fail
\* under "Flag if all fail", some measurement fails otherwise
FailConditionMet(k) ==
    IF flags[k].combination_choice = C_ALL
    THEN \A i \in DOMAIN flags[k].measurement_settings : CriterionFails(k, i)
    ELSE \E i \in DOMAIN flags[k].measurement_settings : CriterionFails(k, i)

\* C15, as the code has it: the integer written for a flag is 1 when the
\* fail condition of the flag is met (the image is flagged) and 0 when the
\* image did not meet the flagging criteria.
C15_OneWhenFailConditionMet ==
    RanNormally =>
        \A k \in DOMAIN flags :
            /\ FailConditionMet(k) => Added[k] = <<measurement_name(flags[k]), 1>>
            /\ ~FailConditionMet(k) => Added[k] = <<measurement_name(flags[k]), 0>>

\* C15, as stated: the integer written for a flag is 0 when the fail
\* condition of the flag is met and 1 when the image did not meet the
\* flagging criteria.
C15_ZeroWhenFailConditionMet ==
    RanNormally =>
        \A k \in DOMAIN flags :
            /\ FailConditionMet(k) => Added[k] = <<measurement_name(flags[k]), 0>>
            /\ ~FailConditionMet(k) => Added[k] = <<measurement_name(flags[k]), 1>>

C15_Witness ==
    /\ RanNormally
    /\ flags[1].combination_choice = C_ALL
    /\ Len(flags[1].measurement_settings) = 2
    /\ CriterionFails(1, 1)
    /\ ~CriterionFails(1, 2)
    /\ Added[1][2] = 0


---------------------------------------------------------------------------
(* Properties of validate_module *)

\* the measurements of the module: measurement c[2] of flag c[1]
Criteria ==
    UNION {{<<k, i>> : i \in DOMAIN flags[k].measurement_settings} : k \in DOMAIN flags}

\* a measurement of rules whose rules file is not there or cannot be
\* parsed, or has a rule about an object that is not the image, or a rule
\* about a feature that no measurement column of the pipeline has
Offending(c) ==
    LET mg == flags[c[1]].measurement_settings[c[2]]
        name == mg.rules_file_name
        files == workspace.rules_files
    IN /\ mg.source_choice = "Rules"
       /\ \/ name \notin DOMAIN files
          \/ ~files[name].parses
          \/ \E j \in DOMAIN files[name].rules : files[name].rules[j].object_name # "Image"
          \/ \E j \in DOMAIN files[name].rules :
                 \A column \in pipeline.measurement_columns :
                     column[2] # files[name].rules[j].feature

\* C16: validate_module raises a ValidationError that carries the
\* rules_file_name setting of an offending measurement whenever some
\* measurement of rules of some flag offends, and raises nothing when none
\* does; measurements that are not of rules cause no error.
C16_ValidationErrorForOffendingRules ==
    validate_out.done =>
        IF \E c \in Criteria : Offending(c)
        THEN /\ validate_out.raised = "ValidationError"
             /\ \E c \in Criteria :
                    /\ Offending(c)
                    /\ validate_out.setting = <<c[1], c[2], "rules_file_name">>
        ELSE validate_out = [done |-> TRUE, raised |-> "", setting |-> <<>>]

C16_Witness ==
    /\ validate_out.done
    /\ Len(flags) = 2
    /\ Len(flags[2].measurement_settings) = 2
    /\ flags[1].measurement_settings[1].source_choice = S_IMAGE
    /\ flags[1].measurement_settings[1].rules_file_name = "missing.txt"
    /\ flags[2].measurement_settings[1].source_choice = S_RULES
    /\ flags[2].measurement_settings[1].rules_file_name = "rules.txt"
    /\ flags[2].measurement_settings[2].rules_file_name = "object_rules.txt"
    /\ \A c \in pipeline.measurement_columns : c[2] # "Intensity_Mean"
    /\ validate_out.raised = "ValidationError"
    /\ validate_out.setting = <<2, 2, "rules_file_name">>


\* the lookup of measurement i of flag k raises on the workspace run was
\* handed: the measurement is not in the store, or the rules file is not
\* there or cannot be parsed
LookupRaises(k, i) ==
    LET mg == flags[k].measurement_settings[i]
        w == run_out.before
    IN \/ /\ mg.source_choice = S_IMAGE
          /\ mg.measurement \notin DOMAIN w.image
       \/ /\ mg.source_choice \in {S_AVERAGE_OBJECT, S_ALL_OBJECTS}
          /\ <<mg.object_name, mg.measurement>> \notin DOMAIN w.objects
       \/ /\ mg.source_choice = S_RULES
          /\ \/ mg.rules_file_name \notin DOMAIN w.rules_files
             \/ ~w.rules_files[mg.rules_file_name].parses

UnknownPolicy(k) == flags[k].combination_choice \notin {C_ANY, C_ALL}

\* a module of one flag, of one or more measurements that can all be looked
\* up, has been run
OneFlagRun ==
    /\ run_out.done
    /\ Len(flags) = 1
    /\ Len(flags[1].measurement_settings) >= 1
    /\ \A i \in DOMAIN flags[1].measurement_settings : ~LookupRaises(1, i)

\* C17: for a flag whose combination choice is neither "Flag if any fail"
\* nor "Flag if all fail", with one measurement or more, run_flag raises the
\* error of an unimplemented combination choice, writes no measurement for
\* the flag and leaves the disposition as it was.
C17_UnknownPolicyRaises ==
    OneFlagRun /\ UnknownPolicy(1) =>
        /\ run_out.raised = "NotImplementedError"
        /\ Added = <<>>
        /\ workspace.disposition = run_out.before.disposition


\* the first measurement of flag k whose lookup raises
FirstRaising(k) ==
    CHOOSE i \in DOMAIN flags[k].measurement_settings :
        /\ LookupRaises(k, i)
        /\ \A j \in 1..(i - 1) : ~LookupRaises(k, j)

\* what the lookup of measurement i of flag k raises: the error of the
\* store, or that of reading the rules
LookupErrorOf(k, i) ==
    LET mg == flags[k].measurement_settings[i]
    IN IF mg.source_choice # S_RULES THEN "LookupError"
       ELSE IF mg.rules_file_name \notin DOMAIN run_out.before.rules_files
       THEN "ValidationError"
       ELSE "ParseError"

\* flag k runs to its end: it has a measurement, every lookup succeeds, and
\* its combination choice is known or not asked for
RunsThrough(k) ==
    /\ Len(flags[k].measurement_settings) >= 1
    /\ \A i \in DOMAIN flags[k].measurement_settings : ~LookupRaises(k, i)
    /\ ~UnknownPolicy(k) \/ Len(flags[k].measurement_settings) = 1

\* the flags before the k-th run to their ends, and in the k-th a lookup
\* raises before anything else does
LookupRaisesInFlag(k) ==
    /\ run_out.done
    /\ \A j \in 1..(k - 1) : RunsThrough(j)
    /\ \E i \in DOMAIN flags[k].measurement_settings : LookupRaises(k, i)
    /\ ~UnknownPolicy(k) \/ LookupRaises(k, 1) \/ LookupRaises(k, 2)

\* C18: when the lookup of a measurement of a flag (or the reading of its
\* rules) raises during run, the error leaves run_flag and run uncaught; no
\* measurement is written for that flag or for a later one, that flag does
\* not change the disposition, and what was written for the flags before it
\* stays as written.
C18_LookupErrorPropagates ==
    \A k \in DOMAIN flags :
        LookupRaisesInFlag(k) =>
            /\ run_out.raised = LookupErrorOf(k, FirstRaising(k))
            /\ Len(Added) = k - 1
            /\ \A j \in k..Len(flags) :
                   measurement_name(flags[j]) \notin DOMAIN workspace.image
            /\ \A j \in 1..(k - 1) :
                   /\ Added[j] = <<measurement_name(flags[j]),
                                   IF FailConditionMet(j) THEN 1 ELSE 0>>
                   /\ workspace.image[measurement_name(flags[j])] = Added[j][2]
            /\ workspace.disposition =
                   IF \E j \in 1..(k - 1) : FailConditionMet(j) /\ flags[j].wants_skip
                   THEN DISPOSITION_SKIP
                   ELSE run_out.before.disposition

C18_Witness ==
    /\ Len(flags) = 3
    /\ LookupRaisesInFlag(2)
    /\ flags[2].measurement_settings[1].source_choice = S_RULES
    /\ Len(flags[3].measurement_settings) = 1
    /\ ~LookupRaises(3, 1)
    /\ run_out.raised = "ValidationError"
    /\ run_out.before.disposition = DISPOSITION_CONTINUE
    /\ workspace.disposition = DISPOSITION_SKIP
    /\ Added = << <<"QC_Flag1", 1>> >>


---------------------------------------------------------------------------
(* Properties of the names of the flags *)

\* C19: in every configuration reached from create_settings by adding and
\* removing flags, no name being edited, the names measurement_name gives
\* (category, "_", feature_name) are pairwise distinct across the flags of
\* the module: no two flags write to, or declare a column for, the same
\* image measurement.
C19_FlagNamesDistinct ==
    \A k \in DOMAIN flags : \A j \in DOMAIN flags :
        k # j => measurement_name(flags[k]) # measurement_name(flags[j])


---------------------------------------------------------------------------
(* Properties of what eval_measurement displays for rules *)

\* C20: for a measurement of rules the value displayed is "hit_count of
\* remaining_rows" when remaining_rows, the number of score rows left after
\* the NaN rows are discarded, is greater than 1, and "--" otherwise; so a
\* single row scoring highest for the one selected class gives hit_count 1,
\* remaining_rows 1, "--" and the verdict Fail.
C20_DisplayOfRemainingRows ==
    Evaluated /\ ms.source_choice = S_RULES =>
        LET hit_count == eval_out.result.hit_count
            remaining_rows == Len(eval_out.result.objclass)
        IN eval_out.result.stats[3] =
               IF remaining_rows > 1
               THEN ToString(hit_count) \o " of " \o ToString(remaining_rows)
               ELSE "--"


---------------------------------------------------------------------------
(* Properties of the statistics and of runs of several flags *)

\* what eval_measurement gives for the i-th measurement of the k-th flag on
\* the workspace run was handed
Evaluation(k, i) == eval_measurement(run_out.before, flags[k].measurement_settings[i])

\* C21: run_flag evaluates every measurement of the flag once, in the order
\* of the configuration, also after the verdict of the flag is settled, and
\* returns one tuple per measurement in that order: its first element is the
\* name of the flag (category, "_", feature_name), the rest is what
\* eval_measurement displays for that measurement, and its last element is
\* "Fail" exactly when that measurement did not pass.
C21_OneTuplePerCriterion ==
    RanNormally =>
        /\ Len(run_out.statistics) = MeasurementsBefore(Len(flags) + 1)
        /\ \A k \in DOMAIN flags : \A i \in DOMAIN flags[k].measurement_settings :
               LET t == run_out.statistics[MeasurementsBefore(k) + i]
               IN /\ Len(t) = 5
                  /\ t[1] = measurement_name(flags[k])
                  /\ SubSeq(t, 2, 5) = Evaluation(k, i).stats
                  /\ t[5] = "Fail" <=> ~Evaluation(k, i).passed
                  /\ t[5] = "Pass" <=> Evaluation(k, i).passed

C21_Witness ==
    /\ RanNormally
    /\ Len(flags) = 1
    /\ flags[1].combination_choice = C_ANY
    /\ Len(flags[1].measurement_settings) = 3
    /\ ~Evaluation(1, 1).passed
    /\ Evaluation(1, 2).passed
    /\ ~Evaluation(1, 3).passed
    /\ Len(run_out.statistics) = 3
    /\ run_out.statistics[1][5] = "Fail"
    /\ run_out.statistics[2][5] = "Pass"
    /\ run_out.statistics[3] = <<"Metadata_QCFlag">> \o Evaluation(1, 3).stats


\* the flags run has gone through: those it has written a measurement for
FlagsRun == 1..Len(Added)

\* C22: in one run of a module of several flags, the flags are gone through
\* in the order of the configuration and each writes its measurement, also
\* after an earlier flag has set the disposition to SKIP; no later flag sets
\* the disposition back: at the end of run it is SKIP if and only if it was
\* SKIP before run or some flag failed with wants_skip set.
C22_SkipIsKept ==
    run_out.done =>
        /\ RanNormally => Len(Added) = Len(flags)
        /\ Len(Added) <= Len(flags)
        /\ \A k \in FlagsRun :
               Added[k] = <<measurement_name(flags[k]),
                            IF FailConditionMet(k) THEN 1 ELSE 0>>
        /\ workspace.disposition = DISPOSITION_SKIP <=>
               \/ run_out.before.disposition = DISPOSITION_SKIP
               \/ \E k \in FlagsRun : FailConditionMet(k) /\ flags[k].wants_skip

C22_Witness ==
    /\ RanNormally
    /\ Len(flags) = 3
    /\ run_out.before.disposition = DISPOSITION_CONTINUE
    /\ FailConditionMet(1) /\ flags[1].wants_skip
    /\ ~FailConditionMet(2) /\ flags[2].wants_skip
    /\ FailConditionMet(3) /\ ~flags[3].wants_skip
    /\ Added = << <<"QC_Flag1", 1>>, <<"QC_Flag2", 0>>, <<"QC_Flag3", 1>> >>
    /\ workspace.disposition = DISPOSITION_SKIP


---------------------------------------------------------------------------
(* Properties of repeated and stepwise upgrades *)

\* upgrade_settings has returned for a list that is no MATLAB import
UpgradedSaved ==
    /\ upgrade_out.done
    /\ upgrade_out.raised = ""
    /\ ~from_matlab
    /\ variable_revision_number \in 1..4

\* upgrade_settings applied to what it returned
UpgradedAgain ==
    upgrade_settings(upgrade_out.setting_values, upgrade_out.variable_revision_number,
                     upgrade_out.from_matlab)

\* the steps from version 1 to 2, from 2 to 3 and from 3 to 4, each applied
\* on its own to the list the step before gave
StepTo2 == upgrade_1(setting_values)
StepTo3 == upgrade_2(StepTo2.setting_values)
StepTo4 == upgrade_3(StepTo3.setting_values)

\* C23: for a list that is no MATLAB import, of version 1, 2, 3 or 4,
\* upgrade_settings returns version 4; a list of version 4 is returned as it
\* came, so that upgrade_settings applied to what it returned gives the same
\* list and version again; and a list of version 1 upgraded in one call is
\* the list the steps through versions 2 and 3 give one after the other.
C23_UpgradeReachesVersion4Once ==
    UpgradedSaved =>
        /\ upgrade_out.variable_revision_number = variable_revision_number_current
        /\ ~upgrade_out.from_matlab
        /\ variable_revision_number = variable_revision_number_current =>
               upgrade_out.setting_values = setting_values
        /\ UpgradedAgain.raised = ""
        /\ UpgradedAgain.setting_values = upgrade_out.setting_values
        /\ UpgradedAgain.variable_revision_number = upgrade_out.variable_revision_number
        /\ variable_revision_number = 1 =>
               /\ StepTo2.raised = "" /\ StepTo2.variable_revision_number = 2
               /\ StepTo3.raised = "" /\ StepTo3.variable_revision_number = 3
               /\ StepTo4.raised = ""
               /\ StepTo4.setting_values = upgrade_out.setting_values
               /\ StepTo4.variable_revision_number = upgrade_out.variable_revision_number

C23_Witness ==
    /\ UpgradedSaved
    /\ variable_revision_number = 1
    /\ FlagCount(setting_values) = 2
    /\ MeasurementCount(setting_values, 1, 4, 7) = 1
    /\ Len(setting_values) = 1 + 2 * 4 + 7
    /\ Len(StepTo2.setting_values) = 1 + 2 * 5 + 7
    /\ Len(StepTo3.setting_values) = 1 + 2 * 5 + 9
    /\ Len(upgrade_out.setting_values) = 1 + 2 * 5 + 10
    /\ upgrade_out.setting_values # setting_values
    /\ UpgradedAgain.setting_values = upgrade_out.setting_values


---------------------------------------------------------------------------
(* Properties of the first flag *)

\* the flag create_settings made: the one without a remover, whose first
\* measurement has no remover either
Created(flag) ==
    /\ ~flag.remover
    /\ Len(flag.measurement_settings) >= 1
    /\ ~flag.measurement_settings[1].remover

\* C24: in every configuration reached from create_settings by adding and
\* removing flags and measurements, the module has at least one flag: the
\* flag create_settings made has no remover, is never removed and stays the
\* first of the list, every other flag having a remover.
C24_FirstFlagStays ==
    /\ Len(flags) >= 1
    /\ Created(flags[1])
    /\ \A k \in 2..Len(flags) : flags[k].remover /\ ~Created(flags[k])

C24_Witness ==
    /\ Len(flags) = 2
    /\ Created(flags[1])
    /\ Len(flags[1].measurement_settings) = 2
    /\ flags[1].measurement_settings[2].remover
    /\ flags[2].remover
    /\ Len(flags[2].measurement_settings) = 0


=============================================================================
